---- MODULE Spec2Model ----
(***************************************************************************)
(* A model of struct-iou: the annotated tree built by                      *)
(* ExtendedTree.from_tree_and_leaf_timestamps (src/structiou/data.py),     *)
(* span_iou / eps_eq (src/structiou/utils.py) and the memoised tree        *)
(* alignment of TreeAligner (src/structiou/metrics.py).                    *)
(*                                                                         *)
(* Numbers.  Leaf times are integers in 0..MaxTime.  A span IoU is the     *)
(* rational intersection/union with union in 1..MaxTime, so every weight   *)
(* is kept exactly as an integer multiple of 1/Den, Den == lcm(1..MaxTime).*)
(* A weight w of the program is the integer w*Den of the model; the        *)
(* program's -1 (memo sentinel) is -Den.  All time differences are         *)
(* integers and all scaled IoUs are integers, so "x < eps" (eps = 1e-6)    *)
(* is "x < 1" on both.  Floating-point rounding is not modelled.           *)
(***************************************************************************)
EXTENDS Integers, Sequences, FiniteSets, TLC

\* ---------------------------------------------------------------- bounds
MaxNodes == 3      \* nodes of a label tree
MaxTime == 2       \* leaf times are integers in 0..MaxTime
MaxExtra == 1      \* a timestamp list is at most this much longer than the leaves
MaxOps == 2        \* public calls made on one TreeAligner instance

Labels == {"A", "B"}

\* ------------------------------------------------------- small arithmetic
Max2(a, b) == IF a >= b THEN a ELSE b
Min2(a, b) == IF a <= b THEN a ELSE b
Abs(x) == IF x < 0 THEN -x ELSE x

RECURSIVE Gcd(_, _)
Gcd(a, b) == IF b = 0 THEN a ELSE Gcd(b, a % b)

RECURSIVE LcmUpTo(_)
LcmUpTo(n) == IF n <= 1 THEN 1 ELSE LET l == LcmUpTo(n - 1) IN (l * n) \div Gcd(l, n)

\* the common denominator of all weights
Den == LcmUpTo(MaxTime)

\* eps = 1e-6 of eps_eq / span_iou / align: on integers, x < eps iff x < EpsCeil
EpsCeil == 1

\* ------------------------------------------------------------ label trees
\* A label tree (NLTKTree): [label, children]; a child is a subtree or the
\* terminal string, modelled as the record Terminal.
Terminal == [token |-> "w"]
IsStr(c) == "token" \in DOMAIN c

RECURSIVE TreesN(_), Forests(_)
\* label trees with exactly n nodes: a preterminal, or a label over a forest
TreesN(n) ==
    IF n = 1 THEN {[label |-> l, children |-> <<Terminal>>] : l \in Labels}
    ELSE {[label |-> l, children |-> f] : l \in Labels, f \in Forests(n - 1)}
\* non-empty sequences of label trees with n nodes in all
Forests(n) ==
    {<<t>> : t \in TreesN(n)} \cup
    UNION {{<<t>> \o f : t \in TreesN(k), f \in Forests(n - k)} : k \in 1..(n - 1)}

LabelTrees == UNION {TreesN(n) : n \in 1..MaxNodes}

\* nltk.Tree.leaves(): the terminals, left to right (only the count is used)
RECURSIVE NLeaves(_)
RECURSIVE NLeavesSeq(_)
NLeavesSeq(cs) ==
    IF cs = <<>> THEN 0
    ELSE (IF IsStr(Head(cs)) THEN 1 ELSE NLeaves(Head(cs))) + NLeavesSeq(Tail(cs))
NLeaves(t) == NLeavesSeq(t.children)

\* leaf timestamps: (token, start, end) with 0 <= start < end <= MaxTime.
\* Leaves need not be in time order, so an inner node's time range
\* (first leaf's start, last leaf's end) can be empty or inverted.
Stamps == {<<"w", q[1], q[2]>> :
              q \in {r \in (0..MaxTime) \X (0..MaxTime) : r[1] < r[2]}}
StampLists(n) == IF n = 0 THEN {<<>>} ELSE [1..n -> Stamps]

\* ------------------------------------------------- Python list indexing
\* lst[i] of a Python list: valid for -len <= i < len, negative from the end
PyValid(lst, i) == -Len(lst) <= i /\ i < Len(lst)
PyGet(lst, i) == IF i >= 0 THEN lst[i + 1] ELSE lst[Len(lst) + i + 1]

\* ----------------------------------- ExtendedTree construction (data.py)
\* The built tree is an arena: index -> node record
\*   [index, label, time_range, leaf_range, children, index2node]
\* children: the child list, each item Terminal (a string child) or
\* [node |-> index of the child subtree]; index2node: the keys of the node's dict.
NoTree == [err |-> TRUE, nodes |-> <<>>, next |-> 0, root |-> 0]

\* mutant: the dict gets the children's own indices, not their whole dicts
NewIndex2Node_ChildrenOnly(index, kids, nodes) ==
    {index} \cup {kids[i].node : i \in {j \in DOMAIN kids : ~IsStr(kids[j])}}

\* ExtendedTree.__init__: the node's own dict is {index: self} updated with
\* every child's dict
NewIndex2Node(index, kids, nodes) ==
    {index} \cup UNION {nodes[kids[i].node].index2node :
                           i \in {j \in DOMAIN kids : ~IsStr(kids[j])}}

RECURSIVE construct_tree(_, _, _, _, _, _)
RECURSIVE construct_children(_, _, _, _)
\* mutant: current_left is not advanced past a subtree child
construct_children_NoAdvance(cs, i, acc, ts) ==
    IF i > Len(cs) \/ acc.err THEN acc
    ELSE IF IsStr(cs[i])
    THEN construct_children(cs, i + 1,
            [acc EXCEPT !.current_left = @ + 1, !.kids = Append(@, cs[i])], ts)
    ELSE LET n == NLeaves(cs[i])
             sub == construct_tree(cs[i], acc.current_left, acc.current_left + n,
                                   acc.next, acc.nodes, ts)
         IN  construct_children(cs, i + 1,
                [err |-> sub.err,
                 nodes |-> sub.nodes,
                 next |-> sub.next,
                 kids |-> Append(acc.kids, [node |-> sub.root]),
                 current_left |-> acc.current_left],
                ts)

\* the loop "for child in node" of construct_tree, from child position i on;
\* acc = [err, nodes, next (global_index), kids (children), current_left]
construct_children(cs, i, acc, ts) ==
    IF i > Len(cs) \/ acc.err THEN acc
    ELSE IF IsStr(cs[i])
    THEN construct_children(cs, i + 1,
            [acc EXCEPT !.current_left = @ + 1, !.kids = Append(@, cs[i])], ts)
    ELSE LET n == NLeaves(cs[i])
             sub == construct_tree(cs[i], acc.current_left, acc.current_left + n,
                                   acc.next, acc.nodes, ts)
         IN  construct_children(cs, i + 1,
                [err |-> sub.err,
                 nodes |-> sub.nodes,
                 next |-> sub.next,
                 kids |-> Append(acc.kids, [node |-> sub.root]),
                 current_left |-> acc.current_left + n],
                ts)

\* construct_tree(node, left, right) with the nonlocal global_index (gi) and
\* the nodes built so far; an IndexError of leaf_timestamps[..] is err
construct_tree(node, left, right, gi, nodes, ts) ==
    LET this_index == gi
        r == construct_children(node.children, 1,
                [err |-> FALSE, nodes |-> nodes, next |-> gi + 1, kids |-> <<>>,
                 current_left |-> left], ts)
    IN  IF r.err \/ ~PyValid(ts, left) \/ ~PyValid(ts, right - 1)
        THEN [NoTree EXCEPT !.next = r.next]
        ELSE LET new == [index |-> this_index,
                         label |-> node.label,
                         time_range |-> <<PyGet(PyGet(ts, left), -2),
                                          PyGet(PyGet(ts, right - 1), -1)>>,
                         leaf_range |-> <<left + 1, right>>,
                         children |-> r.kids,
                         index2node |-> NewIndex2Node(this_index, r.kids, r.nodes)]
             IN  [err |-> FALSE,
                  nodes |-> [k \in (DOMAIN r.nodes) \cup {this_index} |->
                                IF k = this_index THEN new ELSE r.nodes[k]],
                  next |-> r.next,
                  root |-> this_index]

\* ExtendedTree.from_tree_and_leaf_timestamps
from_tree_and_leaf_timestamps(tree, leaf_timestamps) ==
    construct_tree(tree, 0, Len(leaf_timestamps), 0, <<>>, leaf_timestamps)

\* ------------------------------------------- ExtendedTree methods (data.py)
\* T is the arena of a built tree, i the index of the node the method is called on
is_preterminal(T, i) ==
    Len(T[i].children) = 1 /\ IsStr(T[i].children[1])

RECURSIVE n_nodes(_, _)
RECURSIVE n_nodes_sum(_, _, _)
n_nodes_sum(T, cs, k) ==
    IF k > Len(cs) THEN 0 ELSE n_nodes(T, cs[k].node) + n_nodes_sum(T, cs, k + 1)
n_nodes(T, i) ==
    IF IsStr(T[i].children[1]) THEN 1 ELSE n_nodes_sum(T, T[i].children, 1) + 1

\* len(node.leaves())
RECURSIVE n_leaves(_, _)
RECURSIVE n_leaves_sum(_, _, _)
n_leaves_sum(T, cs, k) ==
    IF k > Len(cs) THEN 0
    ELSE (IF IsStr(cs[k]) THEN 1 ELSE n_leaves(T, cs[k].node)) + n_leaves_sum(T, cs, k + 1)
n_leaves(T, i) == n_leaves_sum(T, T[i].children, 1)

\* sorted(keys): the ascending sequence of a finite set of integers
RECURSIVE Sorted(_)
Sorted(S) ==
    IF S = {} THEN <<>>
    ELSE LET m == CHOOSE x \in S : \A y \in S : x <= y IN <<m>> \o Sorted(S \ {m})

subtree_indices(T, i) == Sorted(T[i].index2node)

\* ------------------------------------------------------ utils.py
eps_eq(x, y) == Abs(x - y) < EpsCeil

\* mutant: only the union is tested against eps
span_iou_UnionOnly(span1, span2) ==
    LET intersection == Min2(span1[2], span2[2]) - Max2(span1[1], span2[1])
        union == Max2(span1[2], span2[2]) - Min2(span1[1], span2[1])
    IN  IF union < EpsCeil THEN 0
        ELSE (intersection * Den) \div union

\* span_iou(span1, span2), as the integer Den * IoU
span_iou(span1, span2) ==
    LET intersection == Min2(span1[2], span2[2]) - Max2(span1[1], span2[1])
        union == Max2(span1[2], span2[2]) - Min2(span1[1], span2[1])
    IN  IF intersection < EpsCeil \/ union < EpsCeil THEN 0
        ELSE (intersection * Den) \div union

\* ------------------------------------------------ TreeAligner (metrics.py)
\* -1e10, the initial value of every cell of max_span_matching_weight but
\* [0, 0].  Sums of weights stay below MaxNodes * Den, so every comparison
\* against this value comes out as it does against -1e10.
NegInf == -1000000000

\* the cells of a table indexed [0..n, 0..k]
Cells(n, k) == (0..n) \X (0..k)

\* mutant: the comparison with the threshold is inverted
Thresholded_Inverted(v, threshold_iou) == IF v < threshold_iou THEN v ELSE 0

\* span_ious * (span_ious > threshold_iou), one entry
Thresholded(v, threshold_iou) == IF v > threshold_iou THEN v ELSE 0

\* TreeAligner.__init__: the fields that never change afterwards.
\* P, G: records [nodes, root] of two built trees.
NewAligner(P, G, threshold_iou, flexible_terminal_alignment) ==
    LET n_ptree == n_nodes(P.nodes, P.root)
        n_gtree == n_nodes(G.nodes, G.root)
        raw == [c \in (0..(n_ptree - 1)) \X (0..(n_gtree - 1)) |->
                   span_iou(P.nodes[c[1]].time_range, G.nodes[c[2]].time_range)]
    IN  [ptree |-> P.nodes, proot |-> P.root,
         gtree |-> G.nodes, groot |-> G.root,
         threshold_iou |-> threshold_iou,
         flexible |-> flexible_terminal_alignment,
         n_ptree |-> n_ptree, n_gtree |-> n_gtree,
         span_ious |-> [c \in DOMAIN raw |-> Thresholded(raw[c], threshold_iou)]]

\* TreeAligner.__init__: the memo tables, max_matching_weights = -1 and
\* trace = defaultdict(set) (a missing key reads as the empty set).
\* The record also carries a log of what align does on the tables:
\*   calls: the recursive calls made, as <<p, g, u, v>> for a call of
\*          align(u, v) from the loops of align(p, g);
\*   runs: per pair, how often align got past the memo test, the rejection
\*         test and the preterminal case, into the loops;
\*   depth, max_depth: the recursive calls of align now on the stack, and
\*          the most there were.
NewMemo(A) ==
    [w |-> [c \in DOMAIN A.span_ious |-> -Den],
     t |-> [c \in DOMAIN A.span_ious |-> {}],
     calls |-> {},
     runs |-> [c \in DOMAIN A.span_ious |-> 0],
     depth |-> 0,
     max_depth |-> 0]

\* the log: align(p, g) starts its loops
Ran(m, p, g) == [m EXCEPT !.runs[<<p, g>>] = @ + 1]
\* the log: the loops of align(p, g) call align(u, v), and the call returns
Recursed(m, p, g, u, v) ==
    [m EXCEPT !.calls = @ \cup {<<p, g, u, v>>},
              !.depth = @ + 1,
              !.max_depth = Max2(@, m.depth + 1)]
Returned(m) == [m EXCEPT !.depth = @ - 1]

\* mutant: the memo is never consulted
MemoHit_Never(m, p, g) == FALSE

\* "directly return the value if computed before"
MemoHit(m, p, g) == m.w[<<p, g>>] >= 0

\* mutant: the nonterminal label test forgets that gnode may be a preterminal
Rejected_PredictedOnly(A, p, g) ==
    \/ eps_eq(A.span_ious[<<p, g>>], 0)
    \/ (/\ ~is_preterminal(A.ptree, p)
        /\ A.ptree[p].label # A.gtree[g].label)
    \/ (~A.flexible /\ A.ptree[p].label # A.gtree[g].label)

\* mutant: the flag of the terminal label test is read the wrong way round
Rejected_FlagInverted(A, p, g) ==
    \/ eps_eq(A.span_ious[<<p, g>>], 0)
    \/ (/\ ~is_preterminal(A.ptree, p)
        /\ ~is_preterminal(A.gtree, g)
        /\ A.ptree[p].label # A.gtree[g].label)
    \/ (A.flexible /\ A.ptree[p].label # A.gtree[g].label)

\* mutant: the nonterminal label test is missing
Rejected_NoNonterminalLabel(A, p, g) ==
    \/ eps_eq(A.span_ious[<<p, g>>], 0)
    \/ (~A.flexible /\ A.ptree[p].label # A.gtree[g].label)

\* the edge case of align: no overlap, or labels unmatched
Rejected(A, p, g) ==
    \/ eps_eq(A.span_ious[<<p, g>>], 0)
    \/ (/\ ~is_preterminal(A.ptree, p)
        /\ ~is_preterminal(A.gtree, g)
        /\ A.ptree[p].label # A.gtree[g].label)
    \/ (~A.flexible /\ A.ptree[p].label # A.gtree[g].label)

\* range(n) of Python, as a sequence
Range(n) == [i \in 1..Max2(n, 0) |-> i - 1]

\* mutant: the gold source endpoints run up to the pair's right leaf, so a
\* gold node can follow a pair that lies inside it
SourceEndpoints_GoldOverlap(pl, pr, gl, gr) ==
    LET ps == Range(pl)
        gs == Range(gr)
    IN  [k \in 1..(Len(ps) * Len(gs)) |->
            <<ps[((k - 1) \div Len(gs)) + 1], gs[((k - 1) % Len(gs)) + 1]>>]

\* the source endpoints (pnode_source_endpoint, gnode_source_endpoint) of a
\* subtree pair with leaf ranges (pl, pr), (gl, gr), in the order the two
\* nested loops visit them
SourceEndpoints(pl, pr, gl, gr) ==
    LET ps == Range(pl)
        gs == Range(gl)
    IN  [k \in 1..(Len(ps) * Len(gs)) |->
            <<ps[((k - 1) \div Len(gs)) + 1], gs[((k - 1) % Len(gs)) + 1]>>]

\* the body of the two loops over the source endpoints, from the k-th on.
\* d = [M (max_span_matching_weight), tr (trace), m (the memo tables)]
RECURSIVE UpdateFromSources(_, _, _, _, _, _, _)
UpdateFromSources(d, srcs, pr, gr, weight, subtree_trace, k) ==
    IF k > Len(srcs) THEN d
    ELSE LET update_value == d.M[srcs[k]] + weight
             d1 == IF update_value > d.M[<<pr, gr>>]
                   THEN [d EXCEPT !.M[<<pr, gr>>] = update_value,
                                  !.tr[<<pr, gr>>] = d.tr[srcs[k]] \cup subtree_trace]
                   ELSE d
         IN  UpdateFromSources(d1, srcs, pr, gr, weight, subtree_trace, k + 1)

\* mutant: only the last cell [n_p, n_g] is looked at
BestCell_CornerOnly(d, cs, k, best) ==
    IF d.M[cs[Len(cs)]] > best.w
    THEN [w |-> d.M[cs[Len(cs)]], t |-> d.tr[cs[Len(cs)]]]
    ELSE best

\* the two loops over the cells of max_span_matching_weight that keep the
\* first strictly larger value; cs: the cells in row-major order,
\* best = [w, t]
RECURSIVE BestCell(_, _, _, _)
BestCell(d, cs, k, best) ==
    IF k > Len(cs) THEN best
    ELSE BestCell(d, cs, k + 1,
            IF d.M[cs[k]] > best.w THEN [w |-> d.M[cs[k]], t |-> d.tr[cs[k]]]
            ELSE best)

\* range(n + 1) x range(k + 1) in row-major order
CellSeq(n, k) == [i \in 1..((n + 1) * (k + 1)) |-> <<(i - 1) \div (k + 1), (i - 1) % (k + 1)>>]

EmptyTable(n, k, m) ==
    [M |-> [c \in Cells(n, k) |-> IF c = <<0, 0>> THEN 0 ELSE NegInf],
     tr |-> [c \in Cells(n, k) |-> {}],
     m |-> m]

\* mutant: the span iou is added but the pair is not added to the trace
WithParent_NoTracePair(A, best, p, g) ==
    [w |-> best.w + A.span_ious[<<p, g>>], t |-> best.t]

\* mutant: the pair is added to the trace but its span iou is not added
WithParent_NoOwnIou(A, best, p, g) ==
    [w |-> best.w, t |-> best.t \cup {<<p, g>>}]

\* "add the parents' span iou by definition": the memo entry of (p, g)
\* from the best cell
WithParent(A, best, p, g) ==
    [w |-> best.w + A.span_ious[<<p, g>>], t |-> best.t \cup {<<p, g>>}]

\* mutant: the gold tree's node count is missing from the denominator
Normalised_PredictedOnly(max_weight, n_p, n_g) ==
    [num |-> max_weight * 2, den |-> Den * n_p]

\* struct_iou = max_weight * 2 / (n_nodes(ptree) + n_nodes(gtree)), as the
\* fraction num/den (max_weight comes times Den)
Normalised(max_weight, n_p, n_g) ==
    [num |-> max_weight * 2, den |-> Den * (n_p + n_g)]

RECURSIVE align(_, _, _, _)
RECURSIVE AlignLoop(_, _, _, _, _, _, _)
\* mutant: only the pair (pnode, gnode) itself is skipped, as in __call__
AlignLoop_SkipBoth(A, d, p, g, ps, gs, k) ==
    IF k >= Len(ps) * Len(gs) THEN d
    ELSE LET pi == ps[(k \div Len(gs)) + 1]
             gi == gs[(k % Len(gs)) + 1]
         IN  IF pi = p /\ gi = g
             THEN AlignLoop(A, d, p, g, ps, gs, k + 1)
             ELSE LET min_p == A.ptree[p].leaf_range[1]
                      min_g == A.gtree[g].leaf_range[1]
                      pl == A.ptree[pi].leaf_range[1] - min_p + 1
                      pr == A.ptree[pi].leaf_range[2] - min_p + 1
                      gl == A.gtree[gi].leaf_range[1] - min_g + 1
                      gr == A.gtree[gi].leaf_range[2] - min_g + 1
                      m1 == Returned(align(A, Recursed(d.m, p, g, pi, gi), pi, gi))
                  IN  AlignLoop(A,
                         UpdateFromSources([d EXCEPT !.m = m1],
                                           SourceEndpoints(pl, pr, gl, gr), pr, gr,
                                           m1.w[<<pi, gi>>], m1.t[<<pi, gi>>], 1),
                         p, g, ps, gs, k + 1)

\* the loops over pnode.subtree_indices() x gnode.subtree_indices() of
\* align, flattened: step k is (ps[k \div |gs|], gs[k % |gs|])
AlignLoop(A, d, p, g, ps, gs, k) ==
    IF k >= Len(ps) * Len(gs) THEN d
    ELSE LET pi == ps[(k \div Len(gs)) + 1]
             gi == gs[(k % Len(gs)) + 1]
         IN  IF pi = p \/ gi = g
             THEN AlignLoop(A, d, p, g, ps, gs, k + 1)
             ELSE LET min_p == A.ptree[p].leaf_range[1]
                      min_g == A.gtree[g].leaf_range[1]
                      pl == A.ptree[pi].leaf_range[1] - min_p + 1
                      pr == A.ptree[pi].leaf_range[2] - min_p + 1
                      gl == A.gtree[gi].leaf_range[1] - min_g + 1
                      gr == A.gtree[gi].leaf_range[2] - min_g + 1
                      m1 == Returned(align(A, Recursed(d.m, p, g, pi, gi), pi, gi))
                  IN  AlignLoop(A,
                         UpdateFromSources([d EXCEPT !.m = m1],
                                           SourceEndpoints(pl, pr, gl, gr), pr, gr,
                                           m1.w[<<pi, gi>>], m1.t[<<pi, gi>>], 1),
                         p, g, ps, gs, k + 1)

\* TreeAligner.align(pnode, gnode) on the memo tables m: the tables after
\* the call; the call returns (m'.w[p, g], m'.t[p, g])
align(A, m, p, g) ==
    IF MemoHit(m, p, g) THEN m
    ELSE IF Rejected(A, p, g)
    THEN [m EXCEPT !.w[<<p, g>>] = 0, !.t[<<p, g>>] = {}]
    ELSE IF is_preterminal(A.ptree, p) \/ is_preterminal(A.gtree, g)
    THEN [m EXCEPT !.w[<<p, g>>] = A.span_ious[<<p, g>>], !.t[<<p, g>>] = {<<p, g>>}]
    ELSE LET n_pnode_leaves == n_leaves(A.ptree, p)
             n_gnode_leaves == n_leaves(A.gtree, g)
             d == AlignLoop(A, EmptyTable(n_pnode_leaves, n_gnode_leaves, Ran(m, p, g)),
                            p, g,
                            subtree_indices(A.ptree, p), subtree_indices(A.gtree, g), 0)
             best == BestCell(d, CellSeq(n_pnode_leaves, n_gnode_leaves), 1,
                              [w |-> d.m.w[<<p, g>>], t |-> d.m.t[<<p, g>>]])
             e == WithParent(A, best, p, g)
         IN  [d.m EXCEPT !.w[<<p, g>>] = e.w, !.t[<<p, g>>] = e.t]

\* the loops over all subtree index pairs of __call__ (the root pair skipped)
RECURSIVE CallLoop(_, _, _, _, _)
CallLoop(A, d, ps, gs, k) ==
    IF k >= Len(ps) * Len(gs) THEN d
    ELSE LET pi == ps[(k \div Len(gs)) + 1]
             gi == gs[(k % Len(gs)) + 1]
         IN  IF pi = 0 /\ gi = 0
             THEN CallLoop(A, d, ps, gs, k + 1)
             ELSE LET pl == A.ptree[pi].leaf_range[1]
                      pr == A.ptree[pi].leaf_range[2]
                      gl == A.gtree[gi].leaf_range[1]
                      gr == A.gtree[gi].leaf_range[2]
                      m1 == align(A, d.m, pi, gi)
                  IN  CallLoop(A,
                         UpdateFromSources([d EXCEPT !.m = m1],
                                           SourceEndpoints(pl, pr, gl, gr), pr, gr,
                                           m1.w[<<pi, gi>>], m1.t[<<pi, gi>>], 1),
                         ps, gs, k + 1)

\* TreeAligner.__call__ on the memo tables m:
\* [m: the tables after, score: the returned struct_iou as the fraction
\*  num/den, weight: max_weight * Den, trace: the returned trace]
call(A, m) ==
    LET m0 == align(A, m, A.proot, A.groot)
        n_pnode_leaves == n_leaves(A.ptree, A.proot)
        n_gnode_leaves == n_leaves(A.gtree, A.groot)
        d == CallLoop(A, EmptyTable(n_pnode_leaves, n_gnode_leaves, m0),
                      subtree_indices(A.ptree, A.proot),
                      subtree_indices(A.gtree, A.groot), 0)
        best == BestCell(d, CellSeq(n_pnode_leaves, n_gnode_leaves), 1,
                         [w |-> m0.w[<<A.proot, A.groot>>],
                          t |-> m0.t[<<A.proot, A.groot>>]])
    IN  [m |-> d.m,
         weight |-> best.w,
         score |-> Normalised(best.w, n_nodes(A.ptree, A.proot),
                              n_nodes(A.gtree, A.groot)),
         trace |-> best.t]

\* struct_iou(ptree, gtree, threshold_iou, flexible_terminal_alignment)
struct_iou(P, G, threshold_iou, flexible_terminal_alignment) ==
    LET A == NewAligner(P, G, threshold_iou, flexible_terminal_alignment)
    IN  call(A, NewMemo(A)).score

\* ------------------------------------------------------------ the state
VARIABLES
    tree,                         \* from_tree_and_leaf_timestamps: the label tree
    leaf_timestamps,              \*   and the timestamp list it is given
    built,                        \*   and what it returned or raised
    ptree, gtree,                 \* TreeAligner._ptree, ._gtree
    threshold_iou,                \* TreeAligner._threshold_iou (times Den)
    flexible_terminal_alignment,  \* TreeAligner._flexible_terminal_alignment
    span_ious,                    \* TreeAligner._span_ious (times Den)
    max_matching_weights,         \* TreeAligner.max_matching_weights (times Den)
    trace,                        \* TreeAligner.trace
    ret,                          \* what the last call on the aligner returned
    ops,                          \* calls made on the aligner so far
    calls,                        \* log: the recursive calls of the last call
    max_depth,                    \* log: the deepest recursion of align in it
    dp_runs,                      \* log: per pair, the runs of align's loops so far
    span1, span2,                 \* span_iou: its two arguments
    iou                           \*   and what it returned

vars == <<tree, leaf_timestamps, built, ptree, gtree, threshold_iou,
          flexible_terminal_alignment, span_ious, max_matching_weights, trace,
          ret, ops, calls, max_depth, dp_runs, span1, span2, iou>>

buildVars == <<tree, leaf_timestamps, built>>
alignerVars == <<ptree, gtree, threshold_iou, flexible_terminal_alignment,
                 span_ious, max_matching_weights, trace, ret, ops,
                 calls, max_depth, dp_runs>>
iouVars == <<span1, span2, iou>>

\* span_iou's variables while it is not being called
NoSpans == span1 = <<>> /\ span2 = <<>> /\ iou = [status |-> "unused"]

\* threshold_iou values (times Den): 0, 1/2 and 1
Thresholds == {0, Den \div 2, Den}

\* the trees the aligner is given: built from a label tree and one timestamp
\* per leaf
AnnotatedTrees ==
    UNION {{from_tree_and_leaf_timestamps(t, ts) : ts \in StampLists(NLeaves(t))} :
              t \in LabelTrees}

NoRet == [op |-> "none"]

\* the aligner as the operators above take it
Self ==
    [ptree |-> ptree.nodes, proot |-> ptree.root,
     gtree |-> gtree.nodes, groot |-> gtree.root,
     threshold_iou |-> threshold_iou,
     flexible |-> flexible_terminal_alignment,
     n_ptree |-> n_nodes(ptree.nodes, ptree.root),
     n_gtree |-> n_nodes(gtree.nodes, gtree.root),
     span_ious |-> span_ious]
\* the memo tables as the operators above take them, the log of the call
\* about to be made empty
Memo == [w |-> max_matching_weights, t |-> trace,
         calls |-> {}, runs |-> dp_runs, depth |-> 0, max_depth |-> 0]

\* --------------------------------------------------- the aligner's life
\* a TreeAligner just constructed on two built trees
Init ==
    /\ tree = <<>> /\ leaf_timestamps = <<>> /\ built = [status |-> "unused"]
    /\ \E P \in AnnotatedTrees, G \in AnnotatedTrees, th \in Thresholds, fl \in BOOLEAN :
          LET A == NewAligner(P, G, th, fl) IN
          /\ ptree = P /\ gtree = G
          /\ threshold_iou = th
          /\ flexible_terminal_alignment = fl
          /\ span_ious = A.span_ious
          /\ max_matching_weights = NewMemo(A).w
          /\ trace = NewMemo(A).t
          /\ calls = NewMemo(A).calls
          /\ max_depth = NewMemo(A).max_depth
          /\ dp_runs = NewMemo(A).runs
    /\ ret = NoRet
    /\ ops = 0
    /\ NoSpans

\* aligner.align(pnode, gnode) on two nodes of the trees
Align(p, g) ==
    /\ ops < MaxOps
    /\ \E m \in {align(Self, Memo, p, g)} :
       /\ max_matching_weights' = m.w
       /\ trace' = m.t
       /\ calls' = m.calls
       /\ max_depth' = m.max_depth
       /\ dp_runs' = m.runs
       /\ ret' = [op |-> "align", p |-> p, g |-> g,
                  weight |-> m.w[<<p, g>>], trace |-> m.t[<<p, g>>]]
    /\ ops' = ops + 1
    /\ UNCHANGED <<buildVars, iouVars, ptree, gtree, threshold_iou,
                   flexible_terminal_alignment, span_ious>>

\* aligner()
Call ==
    /\ ops < MaxOps
    /\ \E r \in {call(Self, Memo)} :
       /\ max_matching_weights' = r.m.w
       /\ trace' = r.m.t
       /\ calls' = r.m.calls
       /\ max_depth' = r.m.max_depth
       /\ dp_runs' = r.m.runs
       /\ ret' = [op |-> "call", score |-> r.score, weight |-> r.weight,
                  trace |-> r.trace]
    /\ ops' = ops + 1
    /\ UNCHANGED <<buildVars, iouVars, ptree, gtree, threshold_iou,
                   flexible_terminal_alignment, span_ious>>

Next ==
    \/ \E c \in DOMAIN span_ious : Align(c[1], c[2])
    \/ Call

Spec == Init /\ [][Next]_vars

\* struct_iou(ptree, gtree, ...): a fresh aligner, called once
NextScore == ops = 0 /\ Call

SpecScore == Init /\ [][NextScore]_vars

\* leaf timestamps in time order: no leaf starts before the one to its left ends
InOrder(ts) == \A k \in 2..Len(ts) : ts[k - 1][3] <= ts[k][2]

\* the trees of an utterance whose leaves are in time order
OrderedTrees ==
    UNION {{from_tree_and_leaf_timestamps(t, ts) :
               ts \in {l \in StampLists(NLeaves(t)) : InOrder(l)}} :
              t \in LabelTrees}

\* a TreeAligner on two such trees, with a threshold below 1; then any calls
\* of align and __call__ on it
InitMemo ==
    /\ tree = <<>> /\ leaf_timestamps = <<>> /\ built = [status |-> "unused"]
    /\ \E P \in OrderedTrees, G \in OrderedTrees,
          th \in Thresholds \ {Den}, fl \in BOOLEAN :
          LET A == NewAligner(P, G, th, fl) IN
          /\ ptree = P /\ gtree = G
          /\ threshold_iou = A.threshold_iou
          /\ flexible_terminal_alignment = A.flexible
          /\ span_ious = A.span_ious
          /\ max_matching_weights = NewMemo(A).w
          /\ trace = NewMemo(A).t
          /\ calls = NewMemo(A).calls
          /\ max_depth = NewMemo(A).max_depth
          /\ dp_runs = NewMemo(A).runs
    /\ ret = NoRet
    /\ ops = 0
    /\ NoSpans

SpecMemo == InitMemo /\ [][Next]_vars

\* ------------------------------------------- building an annotated tree
\* the aligner's variables while no aligner exists
NoAligner ==
    /\ ptree = NoTree /\ gtree = NoTree
    /\ threshold_iou = 0 /\ flexible_terminal_alignment = TRUE
    /\ span_ious = <<>> /\ max_matching_weights = <<>> /\ trace = <<>>
    /\ ret = NoRet /\ ops = 0
    /\ calls = {} /\ max_depth = 0 /\ dp_runs = <<>>

\* a label tree and a timestamp list of any length up to MaxExtra more
\* than the tree has leaves
InitBuild ==
    /\ tree \in LabelTrees
    /\ leaf_timestamps \in UNION {StampLists(n) : n \in 0..(NLeaves(tree) + MaxExtra)}
    /\ built = [status |-> "none"]
    /\ NoAligner
    /\ NoSpans

\* ExtendedTree.from_tree_and_leaf_timestamps(tree, leaf_timestamps)
FromTreeAndLeafTimestamps ==
    /\ built.status = "none"
    /\ LET r == from_tree_and_leaf_timestamps(tree, leaf_timestamps) IN
       built' = IF r.err THEN [status |-> "raised"]
                ELSE [status |-> "returned", nodes |-> r.nodes, root |-> r.root]
    /\ UNCHANGED <<tree, leaf_timestamps, alignerVars, iouVars>>

NextBuild == FromTreeAndLeafTimestamps

SpecBuild == InitBuild /\ [][NextBuild]_vars

\* ------------------------------------------------- span_iou on two spans
\* any two pairs of times, the degenerate (start = end) and the inverted
\* (start > end) ones included
Intervals == (0..MaxTime) \X (0..MaxTime)

InitIou ==
    /\ tree = <<>> /\ leaf_timestamps = <<>> /\ built = [status |-> "unused"]
    /\ NoAligner
    /\ span1 \in Intervals /\ span2 \in Intervals
    /\ iou = [status |-> "none"]

\* span_iou(span1, span2)
SpanIou ==
    /\ iou.status = "none"
    /\ iou' = [status |-> "returned", value |-> span_iou(span1, span2)]
    /\ UNCHANGED <<buildVars, alignerVars, span1, span2>>

NextIou == SpanIou

SpecIou == InitIou /\ [][NextIou]_vars

\* ============================================================ properties
\* fractions num/den with den > 0
RatLeq(a, b) == a.num * b.den <= b.num * a.den
RatEq(a, b) == a.num * b.den = b.num * a.den

\* the last call on the aligner was aligner()
Called == ret.op = "call"

PIdx == DOMAIN ptree.nodes
GIdx == DOMAIN gtree.nodes

\* a is a strict ancestor of b in the built tree T
StrictAncestor(T, a, b) == a # b /\ b \in T[a].index2node
\* a's leaves all lie to the left of b's
LeftOf(T, a, b) == T[a].leaf_range[2] < T[b].leaf_range[1]

\* the acceptance rule for a node pair, from the trees and the configuration
RawIou(p, g) == span_iou(ptree.nodes[p].time_range, gtree.nodes[g].time_range)
Accepted(p, g) ==
    /\ RawIou(p, g) > threshold_iou
    /\ RawIou(p, g) >= EpsCeil
    /\ (~is_preterminal(ptree.nodes, p) /\ ~is_preterminal(gtree.nodes, g))
          => ptree.nodes[p].label = gtree.nodes[g].label
    /\ ~flexible_terminal_alignment => ptree.nodes[p].label = gtree.nodes[g].label

\* a set of node pairs is one-to-one, ancestor-consistent and order-preserving
StructurePreserving(S) ==
    \A c1 \in S, c2 \in S :
        c1 # c2 =>
            /\ c1[1] # c2[1]
            /\ c1[2] # c2[2]
            /\ StrictAncestor(ptree.nodes, c1[1], c2[1])
                  <=> StrictAncestor(gtree.nodes, c1[2], c2[2])
            /\ LeftOf(ptree.nodes, c1[1], c2[1]) <=> LeftOf(gtree.nodes, c1[2], c2[2])

RECURSIVE SumIou(_)
SumIou(S) ==
    IF S = {} THEN 0
    ELSE LET c == CHOOSE x \in S : TRUE IN span_ious[c] + SumIou(S \ {c})

\* every matching, as a map from predicted nodes to a gold node or to -1
PairsOf(f) == {<<i, f[i]>> : i \in {j \in DOMAIN f : f[j] # -1}}
Matchings ==
    {PairsOf(f) : f \in {h \in [PIdx -> GIdx \cup {-1}] :
                            /\ \A i \in PIdx : h[i] # -1 => Accepted(i, h[i])
                            /\ StructurePreserving(PairsOf(h))}}
BruteForce ==
    LET sums == {SumIou(S) : S \in Matchings}
    IN  CHOOSE x \in sums : \A y \in sums : y <= x

\* every node of both trees spans a time range wider than eps
PositiveWidths ==
    /\ \A i \in PIdx : ptree.nodes[i].time_range[2] - ptree.nodes[i].time_range[1] >= EpsCeil
    /\ \A j \in GIdx : gtree.nodes[j].time_range[2] - gtree.nodes[j].time_range[1] >= EpsCeil

One == [num |-> 1, den |-> 1]

\* C1: the score of (P, G) equals the score of (G, P) under the same
\* threshold_iou and flexible_terminal_alignment.
C1_Symmetric ==
    Called => RatEq(ret.score,
                    struct_iou(gtree, ptree, threshold_iou, flexible_terminal_alignment))
C1_Witness ==
    /\ Called
    /\ Cardinality(PIdx) # Cardinality(GIdx)
    /\ Cardinality(ret.trace) >= 2
    /\ ptree.nodes[0].label # gtree.nodes[0].label

\* C2 as stated: a tree scored against itself has score 1, for every
\* configuration.
C2_SelfScoreOne_Original ==
    (Called /\ ptree = gtree) => RatEq(ret.score, One)
\* C2 amended: a tree scored against itself has score 1 when threshold_iou < 1
\* and every node's time range is wider than eps.
C2_SelfScoreOne ==
    (Called /\ ptree = gtree /\ threshold_iou < Den /\ PositiveWidths)
        => RatEq(ret.score, One)
C2_Witness ==
    /\ Called /\ ptree = gtree /\ PositiveWidths
    /\ threshold_iou = Den \div 2
    /\ Cardinality(PIdx) = 3
    /\ RatEq(ret.score, One)

\* C3: the weight found by aligner() (before normalisation) is the maximum,
\* over all one-to-one, ancestor-consistent, order-preserving sets of accepted
\* node pairs, of the sum of their thresholded span IoUs (root pair optional).
C3_Optimal == Called => ret.weight = BruteForce
C3_Witness ==
    /\ Called
    /\ <<0, 0>> \notin ret.trace
    /\ Cardinality(ret.trace) >= 2
    /\ ret.weight = BruteForce
    /\ Cardinality(Matchings) >= 4

\* C4: the trace returned by aligner() is one-to-one on both sides, and any
\* two of its pairs agree on strict ancestry and on left-to-right order.
C4_TraceStructure == Called => StructurePreserving(ret.trace)
C4_Witness ==
    /\ Called
    /\ \E c1 \in ret.trace, c2 \in ret.trace, c3 \in ret.trace :
          /\ StrictAncestor(ptree.nodes, c1[1], c2[1])
          /\ LeftOf(ptree.nodes, c2[1], c3[1])
          /\ LeftOf(gtree.nodes, c2[2], c3[2])

\* C5: the score lies in [0, 1] (threshold_iou >= 0).
C5_ScoreInUnitInterval ==
    Called => (ret.score.num >= 0 /\ ret.score.num <= ret.score.den)
C5_Witness ==
    Called /\ ret.score.num > 0 /\ ret.score.num < ret.score.den /\ threshold_iou > 0

\* C6: raising threshold_iou never raises the score.
C6_ThresholdMonotone ==
    Called => \A t2 \in Thresholds :
                 t2 >= threshold_iou =>
                    RatLeq(struct_iou(ptree, gtree, t2, flexible_terminal_alignment),
                           ret.score)
C6_Witness ==
    /\ Called /\ threshold_iou = 0
    /\ LET s2 == struct_iou(ptree, gtree, Den \div 2, flexible_terminal_alignment)
       IN  s2.num > 0 /\ ~RatLeq(ret.score, s2)

\* C7: the score with flexible_terminal_alignment = False is at most the
\* score with it True.
C7_FlexibleMonotone ==
    (Called /\ flexible_terminal_alignment)
        => RatLeq(struct_iou(ptree, gtree, threshold_iou, FALSE), ret.score)
C7_Witness ==
    /\ Called /\ flexible_terminal_alignment
    /\ LET s2 == struct_iou(ptree, gtree, threshold_iou, FALSE)
       IN  s2.num > 0 /\ ~RatLeq(ret.score, s2)

\* C8: from_tree_and_leaf_timestamps raises whenever the number of timestamps
\* differs from the number of leaves, be it smaller or larger.
C8_MismatchRaises ==
    (built.status # "none" /\ Len(leaf_timestamps) # NLeaves(tree))
        => built.status = "raised"

\* C9: every pair of the returned trace passes the acceptance rule, and a
\* pair that fails it has weight 0 and an empty trace in the memo tables.
C9_TraceAccepted ==
    Called =>
        /\ \A c \in ret.trace : Accepted(c[1], c[2])
        /\ \A c \in DOMAIN span_ious :
              ~Accepted(c[1], c[2]) => (max_matching_weights[c] = 0 /\ trace[c] = {})
C9_Witness ==
    /\ Called /\ ~flexible_terminal_alignment /\ threshold_iou > 0
    /\ Cardinality(ret.trace) >= 2
    /\ \E c \in DOMAIN span_ious :
          /\ RawIou(c[1], c[2]) > threshold_iou
          /\ ~Accepted(c[1], c[2])
    /\ \E c \in DOMAIN span_ious :
          /\ RawIou(c[1], c[2]) > 0
          /\ RawIou(c[1], c[2]) <= threshold_iou

\* the labels of a label tree in pre-order
RECURSIVE PreorderLabels(_)
RECURSIVE PreorderLabelsSeq(_)
PreorderLabelsSeq(cs) ==
    IF cs = <<>> THEN <<>>
    ELSE (IF IsStr(Head(cs)) THEN <<>> ELSE PreorderLabels(Head(cs)))
            \o PreorderLabelsSeq(Tail(cs))
PreorderLabels(t) == <<t.label>> \o PreorderLabelsSeq(t.children)

\* C10: indices are assigned in pre-order from 0 at the root, are unique, the
\* root's index-to-node map has exactly the keys 0..n_nodes-1, and every
\* node's subtree_indices() is the range [index, index + n_nodes).
C10_PreorderIndices ==
    built.status = "returned" =>
        LET T == built.nodes
            n == n_nodes(T, built.root)
            lab == PreorderLabels(tree)
        IN  /\ built.root = 0
            /\ T[built.root].index2node = 0..(n - 1)
            /\ DOMAIN T = 0..(n - 1)
            /\ n = Len(lab)
            /\ \A i \in DOMAIN T :
                  /\ T[i].index = i
                  /\ T[i].label = lab[i + 1]
                  /\ subtree_indices(T, i) = [k \in 1..n_nodes(T, i) |-> i + k - 1]
                  /\ \A k \in DOMAIN T[i].children :
                        ~IsStr(T[i].children[k]) =>
                            T[i].children[k].node =
                                IF k = 1 THEN i + 1
                                ELSE T[i].children[k - 1].node
                                        + n_nodes(T, T[i].children[k - 1].node)
C10_Witness ==
    /\ built.status = "returned"
    /\ Cardinality(DOMAIN built.nodes) = 3
    /\ Len(built.nodes[0].children) = 2

\* the position, counted from 1 and left to right, of the leaf under the
\* preterminal i: preterminals come in index order (C10)
LeafPosition(T, i) == Cardinality({j \in DOMAIN T : j <= i /\ is_preterminal(T, j)})

\* the timestamps match the tree: one per leaf
MatchingTimestamps == Len(leaf_timestamps) = NLeaves(tree)

\* C11: in a tree built from a label tree with one timestamp per leaf, the
\* root's leaf_range is (1, n_leaves), a preterminal's leaf_range is (k, k)
\* for its leaf position k, and any other node's leaf_range starts where its
\* first child's starts, ends where its last child's ends, and each child's
\* range starts right after its left sibling's ends.
C11_LeafRanges ==
    (built.status = "returned" /\ MatchingTimestamps) =>
        LET T == built.nodes
        IN  /\ T[built.root].leaf_range = <<1, NLeaves(tree)>>
            /\ \A i \in DOMAIN T :
                  IF is_preterminal(T, i)
                  THEN T[i].leaf_range = <<LeafPosition(T, i), LeafPosition(T, i)>>
                  ELSE LET cs == T[i].children
                       IN  /\ T[cs[1].node].leaf_range[1] = T[i].leaf_range[1]
                           /\ T[cs[Len(cs)].node].leaf_range[2] = T[i].leaf_range[2]
                           /\ \A k \in 2..Len(cs) :
                                 T[cs[k].node].leaf_range[1] =
                                    T[cs[k - 1].node].leaf_range[2] + 1
C11_Witness ==
    /\ built.status = "returned"
    /\ MatchingTimestamps
    /\ Cardinality(DOMAIN built.nodes) = 3
    /\ Len(built.nodes[0].children) = 2
    /\ built.nodes[2].leaf_range = <<2, 2>>

\* the two spans share no stretch of positive length
Disjoint(a, b) == a[2] <= b[1] \/ b[2] <= a[1]
Degenerate(a) == a[1] = a[2]
Inverted(a) == a[1] > a[2]

\* C12: for any two spans, degenerate and inverted ones included,
\* span_iou lies in [0, 1], and it is 0 when the spans are disjoint or
\* either one is degenerate or inverted.
C12_SpanIouRange ==
    iou.status = "returned" =>
        /\ 0 <= iou.value /\ iou.value <= Den
        /\ (\/ Disjoint(span1, span2)
            \/ Degenerate(span1) \/ Degenerate(span2)
            \/ Inverted(span1) \/ Inverted(span2)) => iou.value = 0
C12_Witness ==
    /\ iou.status = "returned"
    /\ Inverted(span1)
    /\ ~Degenerate(span2) /\ ~Inverted(span2)
    /\ Min2(span1[1], span1[2]) < span2[2] /\ span2[1] < Max2(span1[1], span1[2])
    /\ iou.value = 0

\* C13: for every pair align has returned for (its memo entry is >= 0), the
\* stored weight is the sum of the thresholded span ious over the stored
\* trace, and so is the weight align returns; the score __call__ returns is
\* 2 * (the sum of the thresholded span ious over the returned trace) /
\* (n_nodes(P) + n_nodes(G)).
C13_WeightIsTraceSum ==
    /\ \A c \in DOMAIN span_ious :
          max_matching_weights[c] >= 0 => max_matching_weights[c] = SumIou(trace[c])
    /\ ret.op = "align" =>
          /\ max_matching_weights[<<ret.p, ret.g>>] >= 0
          /\ ret.weight = SumIou(ret.trace)
    /\ Called =>
          /\ ret.weight = SumIou(ret.trace)
          /\ RatEq(ret.score,
                   [num |-> 2 * SumIou(ret.trace),
                    den |-> Den * (n_nodes(ptree.nodes, ptree.root)
                                     + n_nodes(gtree.nodes, gtree.root))])
C13_Witness ==
    /\ Called
    /\ ops = 2
    /\ Cardinality(ret.trace) >= 2
    /\ threshold_iou > 0
    /\ \E c \in DOMAIN span_ious : RawIou(c[1], c[2]) > 0 /\ span_ious[c] = 0
    /\ \E c \in DOMAIN span_ious :
          max_matching_weights[c] > 0 /\ Cardinality(trace[c]) >= 2

\* what aligner() returns on a new aligner with the same trees and configuration
FreshCall == call(Self, NewMemo(Self))

\* C14: a memo entry that is >= 0 is left as it is, weight and trace, by
\* every later call of align or __call__ on the aligner; the entry of the
\* pair align returns for is >= 0; and every __call__ returns the score and
\* the trace of the __call__ before it, which are those a new aligner returns.
C14_MemoStable ==
    [][/\ \A c \in DOMAIN span_ious :
            max_matching_weights[c] >= 0 =>
                /\ max_matching_weights'[c] = max_matching_weights[c]
                /\ trace'[c] = trace[c]
       /\ ret'.op = "align" => max_matching_weights'[<<ret'.p, ret'.g>>] >= 0
       /\ (Called /\ ret'.op = "call") =>
            /\ ret'.score = ret.score
            /\ ret'.trace = ret.trace
       /\ ret'.op = "call" =>
            /\ RatEq(ret'.score, FreshCall.score)
            /\ ret'.trace = FreshCall.trace]_vars
\* a __call__ that found every pair in the memo, some of them put there by
\* align's loops in an earlier call
C14_Witness ==
    /\ Called
    /\ ops = 2
    /\ calls = {}
    /\ \E c \in DOMAIN span_ious : dp_runs[c] = 1 /\ Cardinality(trace[c]) >= 2

\* the height of node i of the built tree T: the edges on the longest path
\* down to a preterminal
RECURSIVE Height(_, _)
Height(T, i) ==
    IF is_preterminal(T, i) THEN 0
    ELSE LET hs == {Height(T, T[i].children[k].node) : k \in DOMAIN T[i].children}
         IN  1 + CHOOSE h \in hs : \A x \in hs : x <= h

\* C15: every call align(u, v) made from the loops of align(p, g) has u a
\* strict descendant of p and v a strict descendant of g; the recursion of a
\* call of align or __call__ is never deeper than the lower of the two trees
\* (of the two subtrees align was called on), which bounds every chain of
\* nested calls; and per pair, align's loops run at most once in the life
\* of the aligner.
C15_RecursionDescends ==
    /\ \A e \in calls :
          /\ StrictAncestor(ptree.nodes, e[1], e[3])
          /\ StrictAncestor(gtree.nodes, e[2], e[4])
    /\ ret.op = "call" =>
          max_depth <= Min2(Height(ptree.nodes, ptree.root),
                            Height(gtree.nodes, gtree.root))
    /\ ret.op = "align" =>
          max_depth <= Min2(Height(ptree.nodes, ret.p), Height(gtree.nodes, ret.g))
    /\ \A c \in DOMAIN dp_runs : dp_runs[c] <= 1
\* a second call that recursed two deep, from a pair below the roots too
C15_Witness ==
    /\ ops = 2
    /\ ret.op # "none"
    /\ max_depth = 2
    /\ \E e \in calls : e[1] # 0 /\ e[2] # 0
    /\ \E c \in DOMAIN dp_runs : dp_runs[c] = 1

====
